---- MODULE Spec2Model ----
(***************************************************************************)
(* The ChartSDK React component (src/src/components/ChartSDK.tsx) and the  *)
(* datafeed adapter it hands to the charting SDK.                          *)
(*                                                                         *)
(* One mount of the component is modelled: the effect (Mount), the         *)
(* deferred timer callback that runs initializeChart (TimerFire), the      *)
(* SDK's asynchronous onReady callback (OnReady), the effect cleanup       *)
(* (Unmount), and the SDK's and the tick timers' use of the datafeed       *)
(* adapter.  The adapter's implementation (src/utils/chart-datafeed.ts)    *)
(* is not among the sources; its operations follow the design document     *)
(* (section 4.1).                                                          *)
(*                                                                         *)
(* Status strings are written without their leading emoji, which the       *)
(* parser does not accept: "Demo trading data loaded" stands for the       *)
(* string of line 61 and "Failed to load trading data" for line 64.        *)
(***************************************************************************)
EXTENDS Integers, Sequences, FiniteSets

\* ------------------------------------------------------------------ bounds
\* subscription ids the SDK may use
NumSubIds == 2
\* interval handles the adapter may allocate
MaxTimers == 3
\* tick callbacks that are counted
MaxTicks == 2

SubIds == 1..NumSubIds

VARIABLES
    phase,              \* "rendered" | "mounted" | "unmounted"
    timer,              \* the setTimeout of the effect: "none" | "pending" | "fired" | "cleared"
    status,             \* the value last passed to setStatus (initially the useState argument)
    statusLog,          \* every value passed to setStatus, in order
    widgetRef,          \* widgetRef.current: "null" | "chart"
    chartState,         \* the SDK's chart: "none" | "created" | "ready" | "removed"
    initCalls,          \* calls of initializeChart
    initResult,         \* the case initializeChart met: "none" | "noSdk" | "noContainer" | "threw" | "ok"
    createDatafeedCalls,\* calls of createChartDatafeed
    createChartCalls,   \* calls of GoChartingSDK.createChart
    brokerCalls,        \* the payloads passed to setBrokerAccounts, in order
    brokerResult,       \* what setBrokerAccounts did: "none" | "ok" | "threw"
    removeCalls,        \* calls of remove() on the chart instance
    removeResult,       \* what remove() did: "none" | "ok" | "threw"
    uncaught,           \* handlers an exception escaped from
    currentAccountList, \* the four demo broker refs
    currentOrderBook,
    currentTradeBook,
    currentPositions,
    dfCreated,          \* a datafeed adapter exists
    subscriptions,      \* adapter: subscription id -> interval handle (0: none)
    activeTimers,       \* adapter: the live intervals, as <<handle, subscription id>>
    nextTimerId,        \* interval handles allocated so far
    ticks,              \* onTick callbacks delivered (counted up to MaxTicks)
    destroyed,          \* destroy() has been called on the adapter
    dfError,            \* an adapter entry point raised an exception
    lastOp              \* the last call made on the adapter: [op, id]

compVars == <<phase, timer, status, statusLog, widgetRef, chartState, initCalls,
              initResult, createDatafeedCalls, createChartCalls, brokerCalls,
              brokerResult, removeCalls, removeResult, uncaught>>
refVars == <<currentAccountList, currentOrderBook, currentTradeBook, currentPositions>>
dfVars == <<subscriptions, activeTimers, nextTimerId, ticks, destroyed, dfError, lastOp>>
vars == <<compVars, refVars, dfCreated, dfVars>>

\* ------------------------------------------------------------ the component
StatusInitializing == "Initializing chart..."
StatusNoSdk == "GoCharting SDK not available"
StatusNoContainer == "Chart container not available"
StatusInitFailed == "Failed to initialize chart"
StatusChartLoaded == "Chart loaded successfully"
StatusBrokerLoaded == "Demo trading data loaded"
StatusBrokerFailed == "Failed to load trading data"

InitialAccountList ==
    << [id |-> "demo-account-1", name |-> "Demo Trading Account",
        balance |-> 100000, currency |-> "USDT"] >>

\* demoBrokerData with the positions taken from the wrong ref
demoBrokerData_WrongRef ==
    [accountList |-> currentAccountList,
     orderBook |-> currentOrderBook,
     tradeBook |-> currentTradeBook,
     positions |-> currentAccountList]

\* the bundle setupDemoBrokerData builds from the four refs
demoBrokerData ==
    [accountList |-> currentAccountList,
     orderBook |-> currentOrderBook,
     tradeBook |-> currentTradeBook,
     positions |-> currentPositions]

\* setupDemoBrokerData without its try/catch
setupDemoBrokerData_NoCatch(throws) ==
    [payload |-> demoBrokerData,
     statusCalls |-> IF throws THEN <<>> ELSE <<StatusBrokerLoaded>>,
     escaped |-> throws]

\* setupDemoBrokerData(chartInstance); throws: setBrokerAccounts throws.
\* Result: the payload of the call, the setStatus calls made, and whether an
\* exception leaves the function.
setupDemoBrokerData(throws) ==
    [payload |-> demoBrokerData,
     statusCalls |-> IF throws THEN <<StatusBrokerFailed>> ELSE <<StatusBrokerLoaded>>,
     escaped |-> FALSE]

\* initializeChart(); sdkAvailable: GoChartingSDK is truthy, containerAvailable:
\* chartContainerRef.current is set, outcome: what the calls inside the try do
\* ("ok", "datafeedThrows": createChartDatafeed throws, "createThrows":
\* createChart throws).
Outcomes == {"ok", "datafeedThrows", "createThrows"}

\* initializeChart without its try/catch
initializeChart_NoCatch(sdkAvailable, containerAvailable, outcome) ==
    IF ~sdkAvailable THEN
        [statusCalls |-> <<StatusNoSdk>>, datafeedCalls |-> 0, createCalls |-> 0,
         chart |-> FALSE, escaped |-> FALSE]
    ELSE IF ~containerAvailable THEN
        [statusCalls |-> <<StatusNoContainer>>, datafeedCalls |-> 0, createCalls |-> 0,
         chart |-> FALSE, escaped |-> FALSE]
    ELSE IF outcome = "datafeedThrows" THEN
        [statusCalls |-> <<>>, datafeedCalls |-> 1, createCalls |-> 0,
         chart |-> FALSE, escaped |-> TRUE]
    ELSE IF outcome = "createThrows" THEN
        [statusCalls |-> <<>>, datafeedCalls |-> 1, createCalls |-> 1,
         chart |-> FALSE, escaped |-> TRUE]
    ELSE
        [statusCalls |-> <<>>, datafeedCalls |-> 1, createCalls |-> 1,
         chart |-> TRUE, escaped |-> FALSE]

initializeChart(sdkAvailable, containerAvailable, outcome) ==
    IF ~sdkAvailable THEN
        [statusCalls |-> <<StatusNoSdk>>, datafeedCalls |-> 0, createCalls |-> 0,
         chart |-> FALSE, escaped |-> FALSE]
    ELSE IF ~containerAvailable THEN
        [statusCalls |-> <<StatusNoContainer>>, datafeedCalls |-> 0, createCalls |-> 0,
         chart |-> FALSE, escaped |-> FALSE]
    ELSE IF outcome = "datafeedThrows" THEN
        [statusCalls |-> <<StatusInitFailed>>, datafeedCalls |-> 1, createCalls |-> 0,
         chart |-> FALSE, escaped |-> FALSE]
    ELSE IF outcome = "createThrows" THEN
        [statusCalls |-> <<StatusInitFailed>>, datafeedCalls |-> 1, createCalls |-> 1,
         chart |-> FALSE, escaped |-> FALSE]
    ELSE
        [statusCalls |-> <<>>, datafeedCalls |-> 1, createCalls |-> 1,
         chart |-> TRUE, escaped |-> FALSE]

\* the case of initializeChart the inputs select
InitCase(sdkAvailable, containerAvailable, outcome) ==
    IF ~sdkAvailable THEN "noSdk"
    ELSE IF ~containerAvailable THEN "noContainer"
    ELSE IF outcome = "ok" THEN "ok" ELSE "threw"

\* the cleanup without clearTimeout(timer)
cleanup_NoClearTimeout(removeThrows) ==
    [clearsTimer |-> FALSE,
     removes |-> IF widgetRef # "null" THEN 1 ELSE 0,
     escaped |-> FALSE]

\* the cleanup without the try/catch around remove()
cleanup_NoCatch(removeThrows) ==
    [clearsTimer |-> TRUE,
     removes |-> IF widgetRef # "null" THEN 1 ELSE 0,
     escaped |-> (widgetRef # "null" /\ removeThrows)]

\* the effect cleanup; removeThrows: remove() throws.
cleanup(removeThrows) ==
    [clearsTimer |-> TRUE,
     removes |-> IF widgetRef # "null" THEN 1 ELSE 0,
     escaped |-> FALSE]

\* -------------------------------------------------------- datafeed adapter
NoOp == [op |-> "none", id |-> 0]

\* the live intervals that tick for subscription id
ActiveFor(id) == {p \in activeTimers : p[2] = id}

\* clearInterval(handle)
clearInterval(timers, handle) == {p \in timers : p[1] # handle}

\* subscribeBars that sets a new interval without clearing the earlier one
subscribeBars_NoReplace(id) ==
    LET h == nextTimerId + 1
    IN /\ nextTimerId < MaxTimers
       /\ activeTimers' = activeTimers \cup {<<h, id>>}
       /\ subscriptions' = [subscriptions EXCEPT ![id] = h]
       /\ nextTimerId' = h
       /\ UNCHANGED <<destroyed, dfError>>

\* subscribeBars(symbolInfo, resolution, onTick, id): an interval registered
\* earlier under the same id is cleared before the new one is set.
subscribeBars(id) ==
    LET old == subscriptions[id]
        h == nextTimerId + 1
    IN /\ nextTimerId < MaxTimers
       /\ activeTimers' = clearInterval(activeTimers, old) \cup {<<h, id>>}
       /\ subscriptions' = [subscriptions EXCEPT ![id] = h]
       /\ nextTimerId' = h
       /\ UNCHANGED <<destroyed, dfError>>

\* unsubscribeBars(id): clears the interval of id; an unknown id is ignored.
unsubscribeBars(id) ==
    LET old == subscriptions[id]
    IN /\ activeTimers' = clearInterval(activeTimers, old)
       /\ subscriptions' = [subscriptions EXCEPT ![id] = 0]
       /\ UNCHANGED <<nextTimerId, destroyed, dfError>>

\* destroy that forgets the subscriptions without clearing their intervals
destroy_KeepsIntervals ==
    /\ activeTimers' = activeTimers
    /\ subscriptions' = [s \in SubIds |-> 0]
    /\ destroyed' = TRUE
    /\ UNCHANGED <<nextTimerId, dfError>>

\* destroy(): clears every interval and forgets every subscription.
destroy ==
    /\ activeTimers' = {}
    /\ subscriptions' = [s \in SubIds |-> 0]
    /\ destroyed' = TRUE
    /\ UNCHANGED <<nextTimerId, dfError>>

LastOr(log, default) == IF Len(log) = 0 THEN default ELSE log[Len(log)]

Init ==
    /\ phase = "rendered"
    /\ timer = "none"
    /\ status = StatusInitializing
    /\ statusLog = <<>>
    /\ widgetRef = "null"
    /\ chartState = "none"
    /\ initCalls = 0
    /\ initResult = "none"
    /\ createDatafeedCalls = 0
    /\ createChartCalls = 0
    /\ brokerCalls = <<>>
    /\ brokerResult = "none"
    /\ removeCalls = 0
    /\ removeResult = "none"
    /\ uncaught = {}
    /\ currentAccountList = InitialAccountList
    /\ currentOrderBook = <<>>
    /\ currentTradeBook = <<>>
    /\ currentPositions = <<>>
    /\ dfCreated = FALSE
    /\ subscriptions = [s \in SubIds |-> 0]
    /\ activeTimers = {}
    /\ nextTimerId = 0
    /\ ticks = 0
    /\ destroyed = FALSE
    /\ dfError = FALSE
    /\ lastOp = NoOp

\* the effect body: setTimeout(() => initializeChart(), 100)
Mount ==
    /\ phase = "rendered"
    /\ phase' = "mounted"
    /\ timer' = "pending"
    /\ UNCHANGED <<status, statusLog, widgetRef, chartState, initCalls, initResult,
                   createDatafeedCalls, createChartCalls, brokerCalls,
                   brokerResult, removeCalls, removeResult,
                   uncaught, refVars, dfCreated, dfVars>>

\* the timer callback: initializeChart()
TimerFire ==
    /\ timer = "pending"
    /\ \E sdkAvailable \in BOOLEAN, containerAvailable \in BOOLEAN, outcome \in Outcomes :
         LET r == initializeChart(sdkAvailable, containerAvailable, outcome) IN
         /\ timer' = "fired"
         /\ initCalls' = initCalls + 1
         /\ initResult' = InitCase(sdkAvailable, containerAvailable, outcome)
         /\ statusLog' = statusLog \o r.statusCalls
         /\ status' = LastOr(r.statusCalls, status)
         /\ createDatafeedCalls' = createDatafeedCalls + r.datafeedCalls
         /\ createChartCalls' = createChartCalls + r.createCalls
         /\ dfCreated' = (dfCreated \/ r.datafeedCalls > 0)
         /\ chartState' = IF r.chart THEN "created" ELSE chartState
         /\ uncaught' = IF r.escaped THEN uncaught \cup {"initializeChart"} ELSE uncaught
    /\ UNCHANGED <<phase, widgetRef, brokerCalls, brokerResult,
                   removeCalls, removeResult, refVars, dfVars>>

\* the SDK delivers onReady(chartInstance), once, some time after createChart
OnReady ==
    /\ chartState = "created"
    /\ \E throws \in BOOLEAN :
         LET r == setupDemoBrokerData(throws) IN
         /\ chartState' = "ready"
         /\ widgetRef' = "chart"
         /\ statusLog' = statusLog \o <<StatusChartLoaded>> \o r.statusCalls
         /\ status' = LastOr(r.statusCalls, StatusChartLoaded)
         /\ brokerCalls' = Append(brokerCalls, r.payload)
         /\ brokerResult' = IF throws THEN "threw" ELSE "ok"
         /\ uncaught' = IF r.escaped THEN uncaught \cup {"onReady"} ELSE uncaught
    /\ UNCHANGED <<phase, timer, initCalls, initResult, createDatafeedCalls,
                   createChartCalls, removeCalls, removeResult, refVars, dfCreated, dfVars>>

\* the effect cleanup, run when the component unmounts
Unmount ==
    /\ phase = "mounted"
    /\ \E removeThrows \in BOOLEAN :
         LET r == cleanup(removeThrows) IN
         /\ phase' = "unmounted"
         /\ timer' = IF r.clearsTimer /\ timer = "pending" THEN "cleared" ELSE timer
         /\ removeCalls' = removeCalls + r.removes
         /\ removeResult' = IF r.removes = 0 THEN removeResult
                            ELSE IF removeThrows THEN "threw" ELSE "ok"
         /\ chartState' = IF r.removes > 0 /\ ~removeThrows THEN "removed" ELSE chartState
         /\ uncaught' = IF r.escaped THEN uncaught \cup {"cleanup"} ELSE uncaught
    /\ UNCHANGED <<status, statusLog, widgetRef, initCalls, initResult,
                   createDatafeedCalls, createChartCalls, brokerCalls,
                   brokerResult, refVars, dfCreated, dfVars>>

\* the SDK subscribes to live bars of the chart it is showing
SdkSubscribeBars ==
    /\ chartState \in {"created", "ready"}
    /\ \E id \in SubIds :
         /\ subscribeBars(id)
         /\ lastOp' = [op |-> IF subscriptions[id] # 0 THEN "resubscribe" ELSE "subscribe",
                       id |-> id]
    /\ UNCHANGED <<compVars, refVars, dfCreated, ticks>>

\* the SDK drops a subscription (possibly one it never made)
SdkUnsubscribeBars ==
    /\ chartState # "none"
    /\ \E id \in SubIds :
         /\ unsubscribeBars(id)
         /\ lastOp' = [op |-> IF subscriptions[id] # 0 THEN "unsubscribe" ELSE "unsubscribeUnknown",
                       id |-> id]
    /\ UNCHANGED <<compVars, refVars, dfCreated, ticks>>

\* a live interval fires and delivers a simulated bar through onTick
TickFire ==
    /\ ticks < MaxTicks
    /\ \E p \in activeTimers : ticks' = ticks + 1
    /\ UNCHANGED <<compVars, refVars, dfCreated, subscriptions, activeTimers,
                   nextTimerId, destroyed, dfError, lastOp>>

Next == Mount \/ TimerFire \/ OnReady \/ Unmount
        \/ SdkSubscribeBars \/ SdkUnsubscribeBars \/ TickFire

Spec == Init /\ [][Next]_vars

\* ------------------------------------------- the adapter used on its own
\* const datafeed = createChartDatafeed(), then any calls on it
InitDatafeed ==
    /\ phase = "rendered"
    /\ timer = "none"
    /\ status = StatusInitializing
    /\ statusLog = <<>>
    /\ widgetRef = "null"
    /\ chartState = "none"
    /\ initCalls = 0
    /\ initResult = "none"
    /\ createDatafeedCalls = 1
    /\ createChartCalls = 0
    /\ brokerCalls = <<>>
    /\ brokerResult = "none"
    /\ removeCalls = 0
    /\ removeResult = "none"
    /\ uncaught = {}
    /\ currentAccountList = InitialAccountList
    /\ currentOrderBook = <<>>
    /\ currentTradeBook = <<>>
    /\ currentPositions = <<>>
    /\ dfCreated = TRUE
    /\ subscriptions = [s \in SubIds |-> 0]
    /\ activeTimers = {}
    /\ nextTimerId = 0
    /\ ticks = 0
    /\ destroyed = FALSE
    /\ dfError = FALSE
    /\ lastOp = NoOp

DfSubscribeBars ==
    /\ dfCreated
    /\ \E id \in SubIds :
         /\ subscribeBars(id)
         /\ lastOp' = [op |-> IF subscriptions[id] # 0 THEN "resubscribe" ELSE "subscribe",
                       id |-> id]
    /\ UNCHANGED <<compVars, refVars, dfCreated, ticks>>

DfUnsubscribeBars ==
    /\ dfCreated
    /\ \E id \in SubIds :
         /\ unsubscribeBars(id)
         /\ lastOp' = [op |-> IF subscriptions[id] # 0 THEN "unsubscribe" ELSE "unsubscribeUnknown",
                       id |-> id]
    /\ UNCHANGED <<compVars, refVars, dfCreated, ticks>>

DfDestroy ==
    /\ dfCreated
    /\ destroy
    /\ lastOp' = [op |-> IF lastOp.op \in {"destroy", "destroyAgain"}
                         THEN "destroyAgain" ELSE "destroy",
                  id |-> 0]
    /\ UNCHANGED <<compVars, refVars, dfCreated, ticks>>

NextDatafeed == DfSubscribeBars \/ DfUnsubscribeBars \/ DfDestroy \/ TickFire

SpecDatafeed == InitDatafeed /\ [][NextDatafeed]_vars

\* ------------------------------------------------------------- properties
InitialBrokerData ==
    [accountList |-> InitialAccountList, orderBook |-> <<>>,
     tradeBook |-> <<>>, positions |-> <<>>]

\* the last two setStatus calls
LastTwo(log) == IF Len(log) < 2 THEN <<>> ELSE <<log[Len(log) - 1], log[Len(log)]>>

\* C1: once the effect cleanup has run, no step calls setBrokerAccounts on a
\* chart instance and no step calls setStatus.
C1_NoCallbackAfterTeardown ==
    [][phase = "unmounted" =>
         (brokerCalls' = brokerCalls /\ statusLog' = statusLog /\ status' = status)]_vars

\* C2: a teardown that finds the deferred timer pending cancels it; the timer
\* never fires afterwards, so initializeChart, createChartDatafeed and
\* createChart are never called and the status stays "Initializing chart...".
C2_TeardownCancelsTimer ==
    /\ [][(phase = "mounted" /\ timer = "pending" /\ phase' = "unmounted")
             => timer' = "cleared"]_vars
    /\ [][(phase = "unmounted" /\ timer # "fired") => timer' # "fired"]_vars
    /\ []((phase = "unmounted" /\ timer # "fired") =>
             (/\ initCalls = 0
              /\ createDatafeedCalls = 0
              /\ createChartCalls = 0
              /\ status = StatusInitializing))

C2_Witness == phase = "unmounted" /\ timer = "cleared"

\* C3: after teardown the datafeed adapter initializeChart created has been
\* destroyed and has no active tick timer.
C3_TeardownDestroysDatafeed ==
    (phase = "unmounted" /\ dfCreated) => (destroyed /\ activeTimers = {})

\* C4: initializeChart runs at most once and createChart is called at most
\* once; no exception escapes initializeChart; each failure case leaves its
\* status string.
C4_InitFailureNonFatal ==
    /\ initCalls <= 1
    /\ createChartCalls <= 1
    /\ "initializeChart" \notin uncaught
    /\ initResult = "noSdk" => (status = StatusNoSdk /\ createChartCalls = 0)
    /\ initResult = "noContainer" => (status = StatusNoContainer /\ createChartCalls = 0)
    /\ initResult = "threw" => (status = StatusInitFailed /\ chartState = "none")

C4_Witness ==
    initResult = "threw" /\ createChartCalls = 1 /\ status = StatusInitFailed

\* C5: no exception escapes onReady; when setBrokerAccounts threw the status
\* is the failure string, reached through "Chart loaded successfully", and the
\* chart instance is recorded in widgetRef; when it did not throw the status
\* is the loaded string, reached through "Chart loaded successfully".
C5_BrokerFailureCaught ==
    /\ "onReady" \notin uncaught
    /\ brokerResult = "threw" =>
         (/\ status = StatusBrokerFailed
          /\ LastTwo(statusLog) = <<StatusChartLoaded, StatusBrokerFailed>>
          /\ widgetRef = "chart")
    /\ brokerResult = "ok" =>
         (/\ status = StatusBrokerLoaded
          /\ LastTwo(statusLog) = <<StatusChartLoaded, StatusBrokerLoaded>>
          /\ widgetRef = "chart")

C5_Witness ==
    brokerResult = "threw" /\ status = StatusBrokerFailed /\ widgetRef = "chart"

\* C6: the cleanup calls remove() once when a chart instance is recorded and
\* not at all otherwise, leaves no pending timer, and no exception escapes
\* it, also when remove() throws; remove() is called at most once overall.
C6_TeardownErrorsCaught ==
    /\ [][(phase = "mounted" /\ phase' = "unmounted") =>
             (/\ removeCalls' = removeCalls + (IF widgetRef = "chart" THEN 1 ELSE 0)
              /\ timer' # "pending")]_vars
    /\ [](removeCalls <= 1 /\ "cleanup" \notin uncaught)

C6_Witness ==
    phase = "unmounted" /\ removeResult = "threw" /\ removeCalls = 1 /\ timer = "fired"

\* C7: setBrokerAccounts has been called once if the chart became ready and
\* not at all otherwise, each time with the initial bundle (one demo account,
\* empty order book, trade book and positions), and the four lists hold their
\* initial values.
C7_BrokerSnapshotStatic ==
    /\ Len(brokerCalls) = (IF chartState \in {"ready", "removed"} THEN 1 ELSE 0)
    /\ \A i \in 1..Len(brokerCalls) : brokerCalls[i] = InitialBrokerData
    /\ currentAccountList = InitialAccountList
    /\ Len(currentAccountList) = 1
    /\ currentOrderBook = <<>>
    /\ currentTradeBook = <<>>
    /\ currentPositions = <<>>

C7_Witness == Len(brokerCalls) = 1 /\ chartState = "ready"

\* C8: every subscription id has at most one active tick timer, and the id
\* last subscribed (for the first time or again) has exactly one, the one the
\* adapter records for it.
C8_SubscribeIdempotent ==
    /\ \A id \in SubIds : Cardinality(ActiveFor(id)) <= 1
    /\ lastOp.op \in {"subscribe", "resubscribe"} =>
         ActiveFor(lastOp.id) = {<<subscriptions[lastOp.id], lastOp.id>>}

C8_Witness ==
    lastOp.op = "resubscribe" /\ Cardinality(ActiveFor(lastOp.id)) = 1

\* C9: after destroy() there is no active timer and no error, and a second
\* destroy() in succession changes nothing of the adapter.
C9_DestroyIdempotent ==
    /\ [](lastOp.op \in {"destroy", "destroyAgain"} => (activeTimers = {} /\ ~dfError))
    /\ [][(lastOp.op = "destroy" /\ lastOp'.op = "destroyAgain") =>
             UNCHANGED <<subscriptions, activeTimers, nextTimerId, ticks,
                         destroyed, dfError>>]_vars

C9_Witness ==
    lastOp.op = "destroyAgain" /\ nextTimerId > 0 /\ activeTimers = {} /\ ~dfError

\* C10: once the component is unmounted, remove() has been called on the
\* chart instance createChart made for it.
C10_NoChartLeak ==
    (phase = "unmounted" /\ chartState # "none") => removeCalls >= 1
====
